---- MODULE Spec2Model ----
(***************************************************************************)
(* The SGNN projection-layer notebook (src/SGNN-demo.ipynb) as a state     *)
(* machine: SentenceTokenizer, WordTokenizer, CountVectorizer3D,           *)
(* FeatureUnion3D and the scikit-learn Pipeline that chains them.          *)
(*                                                                         *)
(* A Python str is a sequence of one-character strings, a list is a        *)
(* sequence, a dict is a function.  Three specifications share the         *)
(* variables:                                                              *)
(*   SpecSplit  SentenceTokenizer.transform applied to a text,             *)
(*   SpecTok    WordTokenizer.transform applied to a batch of sentences,   *)
(*   Spec       the pipeline object: fit, fit_transform, transform.        *)
(***************************************************************************)
EXTENDS Integers, Sequences, FiniteSets

VARIABLES
    op,             \* the last call made ("init" before any call)
    arg,            \* its argument
    result,         \* its outcome: [status, value]
    fitted,         \* which fitted attributes exist: [vocabulary_, components_]
    vocabulary_,    \* CountVectorizer.vocabulary_: n-gram -> column index
    components_,    \* SparseRandomProjection.components_ of hasher t, t in 0..T-1
    rng,            \* numpy's global RandomState: [seed, pos]
    memo,           \* history: an earlier pipeline.transform since the last fit, if any:
                    \*   <<[arg, result, between]>>
    fits            \* history: the fits that completed, in order

vars == <<op, arg, result, fitted, vocabulary_, components_, rng, memo, fits>>

pipeline_state == <<fitted, vocabulary_, components_, rng, memo, fits>>

\* F applied to the value v, which is evaluated once, as an assignment
\* x = v followed by F(x) is.
Bind(v, F(_)) == CHOOSE y \in {F(x) : x \in {v}} : TRUE

(***************************************************************************)
(* Python str methods                                                      *)
(***************************************************************************)

\* str.find(sub): the first 1-based index where sub occurs in s, 0 if none.
Find(s, sub) ==
    LET n == Len(s) - Len(sub) + 1
        At(i) == SubSeq(s, i, i + Len(sub) - 1) = sub
    IN  IF \E i \in 1..n : At(i)
        THEN CHOOSE i \in 1..n : At(i) /\ \A j \in 1..(i - 1) : ~At(j)
        ELSE 0

\* str.replace(old, new) for a non-empty old: every non-overlapping
\* occurrence, found left to right, is replaced.
RECURSIVE Replace(_, _, _)
Replace(s, old, new) ==
    LET i == Find(s, old)
    IN  IF i = 0 THEN s
        ELSE SubSeq(s, 1, i - 1) \o new
             \o Replace(SubSeq(s, i + Len(old), Len(s)), old, new)

\* str.split(sep) with an explicit separator: empty pieces are kept.
RECURSIVE Split(_, _)
Split(s, sep) ==
    LET i == Find(s, sep)
    IN  IF i = 0 THEN <<s>>
        ELSE <<SubSeq(s, 1, i - 1)>> \o Split(SubSeq(s, i + Len(sep), Len(s)), sep)

\* chr(29), the special separator character of SentenceTokenizer._split.
sep == "chr(29)"

\* The characters str.strip() removes (those str.isspace() accepts), among
\* the characters of the model's alphabet; chr(29) is one of them.
Whitespace == {" ", "\n", sep}

lstrip(s) ==
    IF \A i \in 1..Len(s) : s[i] \in Whitespace THEN <<>>
    ELSE LET k == CHOOSE i \in 1..Len(s) :
                    s[i] \notin Whitespace /\ \A j \in 1..(i - 1) : s[j] \in Whitespace
         IN  SubSeq(s, k, Len(s))

rstrip(s) ==
    IF \A i \in 1..Len(s) : s[i] \in Whitespace THEN <<>>
    ELSE LET k == CHOOSE i \in 1..Len(s) :
                    s[i] \notin Whitespace
                    /\ \A j \in (i + 1)..Len(s) : s[j] \in Whitespace
         IN  SubSeq(s, 1, k)

strip(s) == rstrip(lstrip(s))

\* s * n: n copies of the string s.
Repeat(s, n) == [i \in 1..(n * Len(s)) |-> s[((i - 1) % Len(s)) + 1]]

\* The concatenation of a list of strings (the two halves of the list
\* joined, so that a list of a hundred strings nests only a few calls).
RECURSIVE Join(_)
Join(ss) ==
    IF ss = <<>> THEN <<>>
    ELSE IF Len(ss) = 1 THEN ss[1]
    ELSE Join(SubSeq(ss, 1, Len(ss) \div 2))
             \o Join(SubSeq(ss, (Len(ss) \div 2) + 1, Len(ss)))

(***************************************************************************)
(* WordTokenizer                                                           *)
(***************************************************************************)

begin_of_word == <<"<">>
end_of_word == <<">">>

\* A mutant: the replace("-", " -") is missing.
SentenceWords_NoDash(sentence) ==
    Split(Replace(Replace(Replace(sentence,
              <<"/", "/">>, <<" ", "/">>),
              <<"/">>, <<" ", "/">>),
              <<" ", " ">>, <<" ">>),
          <<" ">>)

\* The expression the comprehension iterates over: the sentence's words.
SentenceWords(sentence) ==
    Split(Replace(Replace(Replace(Replace(sentence,
              <<"/", "/">>, <<" ", "/">>),
              <<"/">>, <<" ", "/">>),
              <<"-">>, <<" ", "-">>),
              <<" ", " ">>, <<" ">>),
          <<" ">>)

\* A mutant: the comprehension without its "if not len(word) == 0".
WordTokenizer_Tokens_KeepEmpty(sentence) ==
    LET words == SentenceWords(sentence)
    IN  [k \in 1..Len(words) |-> begin_of_word \o words[k] \o end_of_word]

\* The inner comprehension: one token per non-empty word.
WordTokenizer_Tokens(sentence) ==
    LET words == SelectSeq(SentenceWords(sentence), LAMBDA word : ~(Len(word) = 0))
    IN  [k \in 1..Len(words) |-> begin_of_word \o words[k] \o end_of_word]

\* WordTokenizer.transform(X).
WordTokenizer_transform(X) == [i \in 1..Len(X) |-> WordTokenizer_Tokens(X[i])]

(***************************************************************************)
(* SentenceTokenizer                                                       *)
(***************************************************************************)

\* char lengths:
MINIMUM_SENTENCE_LENGTH == 10
MAXIMUM_SENTENCE_LENGTH == 200

\* The while loop of _split on one phrase: [out, phrase] when it ends, out
\* being the clipped sub-phrases appended so far.
RECURSIVE ClipLoop(_, _)
ClipLoop(phrase, out) ==
    IF Len(phrase) > MAXIMUM_SENTENCE_LENGTH
    THEN LET sub_phrase == lstrip(SubSeq(phrase, 1, MAXIMUM_SENTENCE_LENGTH))
         IN  ClipLoop(rstrip(SubSeq(phrase, MAXIMUM_SENTENCE_LENGTH + 1, Len(phrase))),
                      Append(out, sub_phrase))
    ELSE [out |-> out, phrase |-> phrase]

\* One iteration of the for loop: what the phrase appends to splitted_string.
PhraseSentences(phrase) ==
    LET c == ClipLoop(strip(phrase), <<>>)
    IN  IF Len(c.phrase) >= MINIMUM_SENTENCE_LENGTH
        THEN Append(c.out, c.phrase)
        ELSE c.out

\* string_ after the strip and the five replace calls.
MarkSeparators(string_) ==
    Replace(Replace(Replace(Replace(Replace(strip(string_),
        <<".">>, <<".", sep>>),
        <<"?">>, <<"?", sep>>),
        <<"!">>, <<"!", sep>>),
        <<";">>, <<";", sep>>),
        <<"\n">>, <<"\n", sep>>)

\* SentenceTokenizer._split(string_).
SentenceTokenizer_split(string_) ==
    LET phrases == Split(MarkSeparators(string_), <<sep>>)
    IN  Join([k \in 1..Len(phrases) |-> PhraseSentences(phrases[k])])

\* SentenceTokenizer.transform(X).
SentenceTokenizer_transform(X) == SentenceTokenizer_split(X)

(***************************************************************************)
(* Outcomes of a call                                                      *)
(***************************************************************************)

NoResult == [status |-> "none", value |-> <<>>]
Ok(v) == [status |-> "ok", value |-> v]
Raise(e) == [status |-> e, value |-> <<>>]

\* The outcome of a list comprehension over calls: the list of their values,
\* or the exception of the first call that raises.
Collect(rs) ==
    IF \E i \in 1..Len(rs) : rs[i].status # "ok"
    THEN LET k == CHOOSE i \in 1..Len(rs) :
                    rs[i].status # "ok" /\ \A j \in 1..(i - 1) : rs[j].status = "ok"
         IN  Raise(rs[k].status)
    ELSE Ok([i \in 1..Len(rs) |-> rs[i].value])

(***************************************************************************)
(* CountVectorizer, as char_term_frequency_params configures it            *)
(* (analyzer 'char', lowercase False, strip_accents None)                  *)
(***************************************************************************)

char_ngram_range == <<1, 4>>
min_df == 2
\* max_df = 0.99, as the fraction 99/100.
max_df == <<99, 100>>
max_features == 10000000

\* ord() of the characters of the model's alphabet.
Ord(c) ==
    CASE c = " " -> 32 [] c = "-" -> 45 [] c = "/" -> 47
      [] c = "<" -> 60 [] c = ">" -> 62
      [] c = "a" -> 97 [] c = "b" -> 98 [] c = "c" -> 99 [] c = "d" -> 100
      [] c = "e" -> 101 [] c = "g" -> 103 [] c = "i" -> 105 [] c = "n" -> 110
      [] c = "r" -> 114 [] c = "s" -> 115 [] c = "t" -> 116

\* Python's str order, which sorted() uses: a < b.
StrLess(a, b) ==
    \E k \in 1..(Len(a) + 1) :
        /\ k <= Len(b)
        /\ \A j \in 1..(k - 1) : a[j] = b[j]
        /\ (k = Len(a) + 1 \/ Ord(a[k]) < Ord(b[k]))

\* The n-grams of length n of a document, left to right.
NgramsOfLength(text_document, n) ==
    [i \in 1..(Len(text_document) - n + 1) |-> SubSeq(text_document, i, i + n - 1)]

\* VectorizerMixin._char_ngrams: the n-grams of every length of the range
\* (no longer than the document), shortest first.  The documents of the
\* model hold no run of whitespace for it to normalise.
RECURSIVE NgramsFrom(_, _)
NgramsFrom(text_document, n) ==
    IF n > char_ngram_range[2] \/ n > Len(text_document) THEN <<>>
    ELSE NgramsOfLength(text_document, n) \o NgramsFrom(text_document, n + 1)

char_ngrams(text_document) == NgramsFrom(text_document, char_ngram_range[1])

\* All the features of all the documents, in the order _count_vocab meets them.
AllFeatures(raw_documents) ==
    Join([k \in 1..Len(raw_documents) |-> char_ngrams(raw_documents[k])])

\* _count_vocab with fixed_vocab=False, its vocabulary: each feature gets the
\* next free index when it is first met (the defaultdict's default_factory).
CountVocab(raw_documents) ==
    LET feats == AllFeatures(raw_documents)
        First(g) == CHOOSE k \in 1..Len(feats) :
                        feats[k] = g /\ \A j \in 1..(k - 1) : feats[j] # g
    IN  [g \in {feats[k] : k \in 1..Len(feats)} |->
            Cardinality({feats[j] : j \in 1..(First(g) - 1)})]

\* _sort_features: the features re-indexed in sorted order.
SortFeatures(vocabulary) ==
    [g \in DOMAIN vocabulary |->
        Cardinality({h \in DOMAIN vocabulary : StrLess(h, g)})]

\* The features of each document, as a set.
FeatureSets(raw_documents) ==
    [k \in 1..Len(raw_documents) |->
        LET feats == char_ngrams(raw_documents[k])
        IN  {feats[i] : i \in 1..Len(feats)}]

\* _document_frequency: the number of documents that hold the feature.
DocumentFrequency(feature_sets, g) ==
    Cardinality({k \in 1..Len(feature_sets) : g \in feature_sets[k]})

\* The feature's column sum: its occurrences in all the documents.
TermFrequency(feats, g) ==
    Cardinality({k \in 1..Len(feats) : feats[k] = g})

\* The mask of _limit_features: document frequency within [low, high], high
\* being max_df * n_doc; beyond `limit` features, the most frequent ones
\* (argsort's order, taken here as column order among equal frequencies).
LimitMask(raw_documents, vocabulary, limit) ==
    LET n_doc == Len(raw_documents)
        feature_sets == FeatureSets(raw_documents)
        feats == AllFeatures(raw_documents)
        mask == {g \in DOMAIN vocabulary :
                    /\ DocumentFrequency(feature_sets, g) * max_df[2] <= max_df[1] * n_doc
                    /\ DocumentFrequency(feature_sets, g) >= min_df}
        Before(h, g) ==
            \/ TermFrequency(feats, h) > TermFrequency(feats, g)
            \/ /\ TermFrequency(feats, h) = TermFrequency(feats, g)
               /\ vocabulary[h] < vocabulary[g]
    IN  IF Cardinality(mask) > limit
        THEN {g \in mask : Cardinality({h \in mask : Before(h, g)}) < limit}
        ELSE mask

\* A mutant: the kept features keep their old indices.
LimitFeatures_NoReindex(vocabulary, mask) ==
    [g \in mask |-> vocabulary[g]]

\* _limit_features, its vocabulary: the features outside the mask are
\* deleted, the others renumbered by new_indices = cumsum(mask) - 1.
LimitFeatures(vocabulary, mask) ==
    [g \in mask |-> Cardinality({h \in mask : vocabulary[h] < vocabulary[g]})]

\* CountVectorizer.fit_transform: the vocabulary it stores in vocabulary_, or
\* the ValueError it raises (an empty vocabulary; max_df below min_df; no
\* feature left after pruning).
CountVectorizer_fit_transform(raw_documents) ==
    LET vocabulary == SortFeatures(CountVocab(raw_documents))
        n_doc == Len(raw_documents)
        mask == LimitMask(raw_documents, vocabulary, max_features)
    IN  IF AllFeatures(raw_documents) = <<>> THEN Raise("ValueError")
        ELSE IF max_df[1] * n_doc < min_df * max_df[2] THEN Raise("ValueError")
        ELSE IF mask = {} THEN Raise("ValueError")
        ELSE Ok(LimitFeatures(vocabulary, mask))

\* A matrix is [shape, rows]; a row maps the columns 0..shape[2]-1 to entries.
Matrix(n_rows, n_cols, rows) == [shape |-> <<n_rows, n_cols>>, rows |-> rows]

\* A mutant: a feature that is not in the vocabulary is counted in column 0.
CountRow_UnknownToFirst(doc, vocabulary) ==
    LET feats == char_ngrams(doc)
        Col(g) == IF g \in DOMAIN vocabulary THEN vocabulary[g] ELSE 0
    IN  [j \in 0..(Cardinality(DOMAIN vocabulary) - 1) |->
            Cardinality({k \in 1..Len(feats) : Col(feats[k]) = j})]

\* _count_vocab with fixed_vocab=True, one document: each feature found in
\* the vocabulary adds one to its column, the others are skipped (KeyError).
CountRow(doc, vocabulary) ==
    LET feats == char_ngrams(doc)
    IN  [j \in 0..(Cardinality(DOMAIN vocabulary) - 1) |->
            Cardinality({k \in 1..Len(feats) :
                feats[k] \in DOMAIN vocabulary /\ vocabulary[feats[k]] = j})]

\* CountVectorizer.transform: NotFittedError without vocabulary_, else the
\* count matrix of the documents, one row each.
CountVectorizer_transform(has_vocabulary, vocabulary, raw_documents) ==
    IF ~has_vocabulary THEN Raise("NotFittedError")
    ELSE Ok(Matrix(Len(raw_documents), Cardinality(DOMAIN vocabulary),
                   [i \in 1..Len(raw_documents) |-> CountRow(raw_documents[i], vocabulary)]))

(***************************************************************************)
(* CountVectorizer3D                                                       *)
(***************************************************************************)

\* CountVectorizer3D.fit: the documents are the words of all the sentences.
CountVectorizer3D_fit(X) == CountVectorizer_fit_transform(Join(X))

\* CountVectorizer3D.transform: one count matrix per sentence.
CountVectorizer3D_transform(has_vocabulary, vocabulary, X) ==
    Collect([i \in 1..Len(X) |-> CountVectorizer_transform(has_vocabulary, vocabulary, X[i])])

(***************************************************************************)
(* SparseRandomProjection, FeatureUnion and FeatureUnion3D                 *)
(***************************************************************************)

T == 80
d == 14

\* scipy.sparse.vstack(X, format='csr'): the matrices stacked, a ValueError
\* when there is none.
vstack(X) ==
    IF Len(X) = 0 THEN Raise("ValueError")
    ELSE Ok(Matrix(Len(Join([i \in 1..Len(X) |-> X[i].rows])), X[1].shape[2],
                   Join([i \in 1..Len(X) |-> X[i].rows])))

\* check_array's defaults (ensure_min_samples=1, ensure_min_features=1).
check_array(X) == X.shape[1] >= 1 /\ X.shape[2] >= 1

\* SparseRandomProjection.fit with n_components=d and random_state=None: the
\* (d, n_features) matrix that numpy's global RandomState yields from the
\* state it is in.  The matrix is a function of that state alone, so it is
\* kept as the state it was drawn at.
SparseRandomProjection_fit(X, random_state) ==
    IF ~check_array(X) THEN Raise("ValueError")
    ELSE Ok([n_components |-> d, n_features |-> X.shape[2], drawn_at |-> random_state])

\* SparseRandomProjection.transform: X times components_.T, of shape
\* (n_samples, n_components), kept as its two factors.
SparseRandomProjection_transform(has_components, components, X) ==
    IF ~check_array(X) THEN Raise("ValueError")
    ELSE IF ~has_components THEN Raise("NotFittedError")
    ELSE IF X.shape[2] # components.n_features THEN Raise("ValueError")
    ELSE Ok([shape |-> <<X.shape[1], components.n_components>>,
             X |-> X.rows, components |-> components])

\* The state of the global generator when hasher t is fitted: the hashers
\* are fitted in order, each drawing its matrix from the same generator.
RandomStateOf(random_state, t) ==
    [seed |-> random_state.seed, pos |-> random_state.pos + t]

\* FeatureUnion3D.fit: every hasher fitted on the stacked matrices.  Its
\* value is the fitted components_, hasher by hasher.
FeatureUnion3D_fit(X, random_state) ==
    Bind(vstack(X), LAMBDA X_flattened_2D :
        IF X_flattened_2D.status # "ok" THEN X_flattened_2D
        ELSE Bind([t \in 0..(T - 1) |->
                      SparseRandomProjection_fit(X_flattened_2D.value,
                                                 RandomStateOf(random_state, t))],
                  LAMBDA fit_t :
                      IF fit_t[0].status # "ok" THEN fit_t[0]
                      ELSE Ok([t \in 0..(T - 1) |-> fit_t[t].value])))

\* The width of sparse.hstack(Xs): the widths of the T blocks added up.
RECURSIVE hstack_width(_, _)
hstack_width(Xs, t) ==
    IF t = T THEN 0 ELSE Xs[t].value.shape[2] + hstack_width(Xs, t + 1)

\* FeatureUnion.transform: every hasher's transform of X, stacked side by
\* side.  The blocks are kept as their factors: X's rows and the components.
FeatureUnion_transform(has_components, components, X) ==
    Bind([t \in 0..(T - 1) |->
             SparseRandomProjection_transform(has_components,
                 IF has_components THEN components[t] ELSE <<>>, X)],
         LAMBDA Xs :
             IF Xs[0].status # "ok" THEN Xs[0]
             ELSE Ok([shape |-> <<X.shape[1], hstack_width(Xs, 0)>>,
                      X |-> X.rows,
                      components |-> [t \in 0..(T - 1) |-> Xs[t].value.components]]))

\* FeatureUnion3D.transform: one projected matrix per sentence.
FeatureUnion3D_transform(has_components, components, X) ==
    Collect([i \in 1..Len(X) |-> FeatureUnion_transform(has_components, components, X[i])])

(***************************************************************************)
(* The pipeline: word_tokenizer, char_term_frequency, union                *)
(***************************************************************************)

\* The fitted state the handlers read and write, and the global generator.
Self == [fitted |-> fitted, vocabulary_ |-> vocabulary_,
         components_ |-> components_, rng |-> rng]

\* The steps Pipeline.fit and Pipeline.fit_transform share: the tokenizer's
\* fit_transform, CountVectorizer3D.fit_transform (fit, then transform), and
\* FeatureUnion3D.fit.  An exception leaves what the earlier steps stored.
\* result is the count matrices handed to the union, or the exception.
Pipeline_fit_steps(self, X) ==
    Bind(WordTokenizer_transform(X), LAMBDA Xt :
    Bind(CountVectorizer3D_fit(Xt), LAMBDA cv :
        IF cv.status # "ok" THEN [self |-> self, result |-> cv]
        ELSE
    Bind([self EXCEPT !.fitted.vocabulary_ = TRUE, !.vocabulary_ = cv.value], LAMBDA self_cv :
    Bind(CountVectorizer3D_transform(TRUE, cv.value, Xt), LAMBDA counts :
        IF counts.status # "ok" THEN [self |-> self_cv, result |-> counts]
        ELSE
    Bind(FeatureUnion3D_fit(counts.value, self.rng), LAMBDA un :
        IF un.status # "ok" THEN [self |-> self_cv, result |-> un]
        ELSE [self |-> [self_cv EXCEPT !.fitted.components_ = TRUE,
                                       !.components_ = un.value,
                                       !.rng.pos = @ + T],
              result |-> counts])))))

\* pipeline.fit(X): returns the pipeline.
Pipeline_fit(self, X) ==
    Bind(Pipeline_fit_steps(self, X), LAMBDA r :
        [self |-> r.self,
         result |-> IF r.result.status = "ok" THEN Ok(<<>>) ELSE r.result])

\* pipeline.fit_transform(X): FeatureUnion3D.fit_transform is fit, then
\* transform.
Pipeline_fit_transform(self, X) ==
    Bind(Pipeline_fit_steps(self, X), LAMBDA r :
        [self |-> r.self,
         result |-> IF r.result.status = "ok"
                    THEN FeatureUnion3D_transform(r.self.fitted.components_,
                                                  r.self.components_, r.result.value)
                    ELSE r.result])

\* A mutant: the union's transform is its fit_transform, which draws the
\* matrices again.
Pipeline_transform_Refit(self, X) ==
    Bind(CountVectorizer3D_transform(self.fitted.vocabulary_, self.vocabulary_,
                                     WordTokenizer_transform(X)), LAMBDA counts :
        IF counts.status # "ok" THEN [self |-> self, result |-> counts]
        ELSE
    Bind(FeatureUnion3D_fit(counts.value, self.rng), LAMBDA un :
        IF un.status # "ok" THEN [self |-> self, result |-> un]
        ELSE [self |-> [self EXCEPT !.components_ = un.value, !.rng.pos = @ + T],
              result |-> FeatureUnion3D_transform(TRUE, un.value, counts.value)]))

\* pipeline.transform(X): the three transforms in turn; nothing is stored.
Pipeline_transform(self, X) ==
    Bind(CountVectorizer3D_transform(self.fitted.vocabulary_, self.vocabulary_,
                                     WordTokenizer_transform(X)), LAMBDA counts :
        [self |-> self,
         result |-> IF counts.status # "ok" THEN counts
                    ELSE FeatureUnion3D_transform(self.fitted.components_,
                                                  self.components_, counts.value)])

\* A mutant: the vectorizer's transform is its fit_transform, which learns the
\* vocabulary again from the batch it is given.
CharTermFrequency_transform_Refit(self, X) ==
    Bind(CountVectorizer3D_fit(X), LAMBDA cv :
        IF cv.status # "ok" THEN [self |-> self, result |-> cv]
        ELSE [self |-> [self EXCEPT !.fitted.vocabulary_ = TRUE, !.vocabulary_ = cv.value],
              result |-> CountVectorizer3D_transform(TRUE, cv.value, X)])

\* pipeline.named_steps["char_term_frequency"].transform(X), X a batch of
\* word lists.
CharTermFrequency_transform(self, X) ==
    [self |-> self,
     result |-> CountVectorizer3D_transform(self.fitted.vocabulary_, self.vocabulary_, X)]

(***************************************************************************)
(* Bounds and inputs                                                       *)
(***************************************************************************)

\* The fits one behaviour completes, and the seeds the generator may start
\* from (0..MaxSeed).
MaxFits == 2
MaxSeed == 1

\* Sentences, character by character.
S_empty == <<>>
S_ab == <<"a", "b">>
S_ab_ab == <<"a", "b", " ", "a", "b">>
S_abc == <<"a", "b", "c">>
S_ab_b == <<"a", "b", " ", "b">>
S_b_a == <<"b", " ", "a">>
S_a_b_c == <<"a", " ", "b", " ", "c">>
S_abc_b == <<"a", "b", "c", " ", "b">>
S_c_d_a == <<"c", "/", "d", "-", "a">>

\* The batches of sentences the pipeline is fitted on: two that fit (the
\* second with a sentence of no word), and three CountVectorizer rejects (one
\* document; nothing left after pruning; no document).
Corpora ==
    { <<S_ab_ab, S_abc>>, <<S_ab_b, S_empty, S_b_a>>,
      <<S_ab>>, <<S_a_b_c>>, <<>> }

\* The batches of sentences the pipeline transforms.
Batches ==
    { <<>>, <<S_ab>>, <<S_abc_b, S_ab>>, <<S_ab, S_empty>>, <<S_c_d_a>> }

\* The batches of word lists handed to char_term_frequency directly: the
\* tokenized batches, and a pair of bare words as in the similarity check.
WordBatches ==
    {WordTokenizer_transform(X) : X \in Batches} \cup { << <<S_ab, S_abc>> >> }

(***************************************************************************)
(* Spec: the pipeline object                                               *)
(***************************************************************************)

Init ==
    /\ op = "init"
    /\ arg = <<>>
    /\ result = NoResult
    /\ fitted = [vocabulary_ |-> FALSE, components_ |-> FALSE]
    /\ vocabulary_ = <<>>
    /\ components_ = <<>>
    /\ rng \in {[seed |-> s, pos |-> 0] : s \in 0..MaxSeed}
    /\ memo = <<>>
    /\ fits = <<>>

\* The handler's new state and outcome become the state.
Store(name, X, r) ==
    /\ op' = name
    /\ arg' = X
    /\ result' = r.result
    /\ fitted' = r.self.fitted
    /\ vocabulary_' = r.self.vocabulary_
    /\ components_' = r.self.components_
    /\ rng' = r.self.rng

\* The fit is logged when both fits completed (the generator has advanced).
LogFit(X, r) ==
    /\ memo' = <<>>
    /\ fits' = IF r.self.rng # rng
               THEN Append(fits, [X |-> X, vocabulary_ |-> r.self.vocabulary_,
                                  components_ |-> r.self.components_])
               ELSE fits

PipelineFit ==
    \E X \in Corpora :
        \E r \in {Pipeline_fit(Self, X)} :
            /\ Len(fits) < MaxFits
            /\ Store("pipeline.fit", X, r)
            /\ LogFit(X, r)

PipelineFitTransform ==
    \E X \in Corpora :
        \E r \in {Pipeline_fit_transform(Self, X)} :
            /\ Len(fits) < MaxFits
            /\ Store("pipeline.fit_transform", X, r)
            /\ LogFit(X, r)

\* The observer of transform calls.  When a new transform call is made it
\* either keeps the call it remembers, noting whether the call that just ended
\* was another transform (another batch, or char_term_frequency's), or
\* remembers the pipeline.transform call that just ended instead.
Observe ==
    LET other == \/ op = "char_term_frequency.transform"
                 \/ op = "pipeline.transform" /\ arg # memo[1].arg
        kept == IF memo = <<>> THEN <<>>
                ELSE <<[memo[1] EXCEPT !.between = @ \/ other]>>
    IN  {kept} \cup (IF op = "pipeline.transform"
                     THEN {<<[arg |-> arg, result |-> result, between |-> FALSE]>>}
                     ELSE {})

PipelineTransform ==
    \E X \in Batches :
        \E r \in {Pipeline_transform(Self, X)} :
            /\ Store("pipeline.transform", X, r)
            /\ memo' \in Observe
            /\ UNCHANGED fits

CharTermFrequencyTransform ==
    \E X \in WordBatches :
        \E r \in {CharTermFrequency_transform(Self, X)} :
            /\ Store("char_term_frequency.transform", X, r)
            /\ memo' \in Observe
            /\ UNCHANGED fits

Next ==
    \/ PipelineFit
    \/ PipelineFitTransform
    \/ PipelineTransform
    \/ CharTermFrequencyTransform

Spec == Init /\ [][Next]_vars

(***************************************************************************)
(* SpecTok: WordTokenizer.transform applied to a batch of sentences        *)
(***************************************************************************)

\* The longest sentence of a one-sentence batch, and of a two-sentence batch.
MaxSentenceLen == 4
MaxPairLen == 2

TokAlphabet == {"a", " ", "/", "-"}

Sentences(n) == UNION {[1..k -> TokAlphabet] : k \in 0..n}

TokBatches ==
    {<<>>}
    \cup {<<s>> : s \in Sentences(MaxSentenceLen)}
    \cup {<<s, t>> : s \in Sentences(MaxPairLen), t \in Sentences(MaxPairLen)}

\* The pipeline object as constructed, for the specifications that do not
\* use it.
Unfitted ==
    /\ fitted = [vocabulary_ |-> FALSE, components_ |-> FALSE]
    /\ vocabulary_ = <<>>
    /\ components_ = <<>>
    /\ rng = [seed |-> 0, pos |-> 0]
    /\ memo = <<>>
    /\ fits = <<>>

InitTok ==
    /\ op = "init"
    /\ arg \in TokBatches
    /\ result = NoResult
    /\ Unfitted

WordTokenizerTransform ==
    /\ op = "init"
    /\ op' = "WordTokenizer.transform"
    /\ result' = Ok(WordTokenizer_transform(arg))
    /\ UNCHANGED <<arg, pipeline_state>>

NextTok == WordTokenizerTransform

SpecTok == InitTok /\ [][NextTok]_vars

(***************************************************************************)
(* SpecSplit: SentenceTokenizer.transform applied to a text                *)
(***************************************************************************)

\* The number of blocks a text is made of.
MaxBlocks == 3

\* The blocks: runs of a letter around the two length limits, runs of
\* spaces, a full stop and a newline.
Blocks ==
    { Repeat(<<"a">>, 9), Repeat(<<"a">>, 10), Repeat(<<"a">>, 199), Repeat(<<"a">>, 200),
      <<" ">>, Repeat(<<" ">>, 195), <<".">>, <<"\n">> }

RECURSIVE TextsOf(_)
TextsOf(n) ==
    IF n = 0 THEN {<<>>}
    ELSE {t \o b : t \in TextsOf(n - 1), b \in Blocks}

Texts == UNION {TextsOf(n) : n \in 0..MaxBlocks}

InitSplit ==
    /\ op = "init"
    /\ arg \in Texts
    /\ result = NoResult
    /\ Unfitted

SentenceTokenizerTransform ==
    /\ op = "init"
    /\ op' = "SentenceTokenizer.transform"
    /\ result' = Ok(SentenceTokenizer_transform(arg))
    /\ UNCHANGED <<arg, pipeline_state>>

NextSplit == SentenceTokenizerTransform

SpecSplit == InitSplit /\ [][NextSplit]_vars

(***************************************************************************)
(* Properties of SentenceTokenizer (SpecSplit)                             *)
(***************************************************************************)

Split_done == op = "SentenceTokenizer.transform"

\* C7: every sentence _split returns, the chunks cut from an over-long
\* sentence included, has at least MINIMUM_SENTENCE_LENGTH and at most
\* MAXIMUM_SENTENCE_LENGTH characters.
C7_SentenceLengthBounds ==
    Split_done =>
        \A i \in 1..Len(result.value) :
            /\ Len(result.value[i]) >= MINIMUM_SENTENCE_LENGTH
            /\ Len(result.value[i]) <= MAXIMUM_SENTENCE_LENGTH

(***************************************************************************)
(* Properties of WordTokenizer (SpecTok)                                   *)
(***************************************************************************)

Tok_done == op = "WordTokenizer.transform"

\* The word of a token: what stands between its markers.
WordOf(token) == SubSeq(token, 2, Len(token) - 1)

\* The words of a token list, joined.
Letters(tokens) == Join([k \in 1..Len(tokens) |-> WordOf(tokens[k])])

\* The sentence without its spaces.
WithoutSpaces(sentence) == SelectSeq(sentence, LAMBDA c : c # " ")

Slashes == {"/", "-"}

\* C8, as claimed: every '/' and '-' is a token of its own (no token holds
\* one together with another character), and no character next to one is
\* merged or removed: the words, joined, are the sentence without its spaces.
C8_BoundaryOnBothSides ==
    Tok_done =>
        \A i \in 1..Len(arg) :
            /\ \A k \in 1..Len(result.value[i]) :
                 (\E p \in 1..Len(result.value[i][k]) : result.value[i][k][p] \in Slashes)
                     => Len(WordOf(result.value[i][k])) = 1
            /\ Letters(result.value[i]) = WithoutSpaces(arg[i])

\* C8, amended: a token boundary stands before every '/' and '-', not after
\* it: in a token a '/' or '-' is only ever the first character of the word;
\* and apart from spaces, the only characters removed are the first '/' of
\* each "//" pair.
C8_BoundaryBeforeOnly ==
    Tok_done =>
        \A i \in 1..Len(arg) :
            /\ \A k \in 1..Len(result.value[i]) :
                 \A p \in 1..Len(WordOf(result.value[i][k])) :
                     WordOf(result.value[i][k])[p] \in Slashes => p = 1
            /\ Letters(result.value[i])
                   = WithoutSpaces(Replace(arg[i], <<"/", "/">>, <<"/">>))

\* C8's case: a '/' or '-' directly between two letters was tokenized, and
\* stayed attached to the letter after it.
C8_Witness ==
    /\ Tok_done
    /\ \E i \in 1..Len(arg) :
         /\ \E p \in 2..(Len(arg[i]) - 1) :
                arg[i][p] \in Slashes /\ arg[i][p - 1] = "a" /\ arg[i][p + 1] = "a"
         /\ \E k \in 1..Len(result.value[i]) :
                Len(WordOf(result.value[i][k])) >= 2
                /\ WordOf(result.value[i][k])[1] \in Slashes

\* C9: one token list per sentence, in input order (the list's words are its
\* sentence's characters), and every token is '<' + w + '>' for a non-empty
\* word w: '<>' is never a token.
C9_TokenForm ==
    Tok_done =>
        /\ result.status = "ok"
        /\ Len(result.value) = Len(arg)
        /\ \A i \in 1..Len(arg) :
             /\ WithoutSpaces(Letters(result.value[i]))
                    = WithoutSpaces(Replace(arg[i], <<"/", "/">>, <<"/">>))
             /\ \A k \in 1..Len(result.value[i]) :
                  LET token == result.value[i][k]
                  IN  /\ Len(token) >= 3
                      /\ token[1] = "<"
                      /\ token[Len(token)] = ">"
                      /\ token # <<"<", ">">>

\* C9's case: a batch of two sentences, one of which splits into words some
\* of which are empty, was tokenized into two lists, one with tokens in it.
C9_Witness ==
    /\ Tok_done
    /\ Len(arg) = 2
    /\ arg[1] # arg[2]
    /\ \E i \in 1..2 :
         /\ \E k \in 1..Len(SentenceWords(arg[i])) : SentenceWords(arg[i])[k] = <<>>
         /\ Len(result.value[i]) >= 1

(***************************************************************************)
(* Properties of the pipeline (Spec)                                       *)
(***************************************************************************)

IsFitted == fitted.vocabulary_ /\ fitted.components_

Last(seq) == seq[Len(seq)]

\* C1: on a fitted pipeline, transform of k sentences returns k matrices in
\* input order, the i-th with as many rows as sentence i has words (none
\* included) and T*d columns.
C1_ShapeLaw ==
    (op = "pipeline.transform" /\ IsFitted) =>
        /\ result.status = "ok"
        /\ Len(result.value) = Len(arg)
        /\ \A i \in 1..Len(arg) :
             result.value[i].shape = <<Len(WordTokenizer_Tokens(arg[i])), T * d>>

\* C2: a transform (the vectorizer's or the pipeline's) made before any fit
\* has completed fails with NotFittedError and returns no matrix; after a
\* completed fit no transform fails with NotFittedError.
C2_FitPrecedesTransform ==
    op \in {"pipeline.transform", "char_term_frequency.transform"} =>
        /\ Len(fits) = 0 => result = Raise("NotFittedError")
        /\ Len(fits) > 0 => result.status # "NotFittedError"

\* C3: once a fit has completed, the vocabulary (and so vocab_size) and the
\* T projection matrices stay what they were at the end of the last fit,
\* whatever transform calls are made.
C3_FittedStateUnchanged ==
    Len(fits) > 0 =>
        /\ IsFitted
        /\ vocabulary_ = Last(fits).vocabulary_
        /\ components_ = Last(fits).components_

\* C3's case: after a fit, at least two transforms of different batches have
\* been made, the last one returning matrices.
C3_Witness ==
    /\ Len(fits) > 0
    /\ op = "pipeline.transform"
    /\ result.status = "ok"
    /\ Len(result.value) > 0
    /\ memo # <<>>
    /\ memo[1].arg # arg

\* C4: on a fitted pipeline, a transform of a batch returns what an earlier
\* transform of the same batch returned (as many matrices, of the same
\* shapes and entries), whatever transforms were made in between, as long as
\* no fit was.
C4_TransformIdempotent ==
    (op = "pipeline.transform" /\ IsFitted /\ memo # <<>>) =>
        (memo[1].arg = arg => result = memo[1].result)

\* C4's case: a batch was transformed into matrices, then another transform
\* was made, then the same batch was transformed again.
C4_Witness ==
    /\ op = "pipeline.transform"
    /\ IsFitted
    /\ memo # <<>>
    /\ memo[1].arg = arg
    /\ memo[1].between
    /\ result.status = "ok"
    /\ Len(result.value) > 0

\* C5: two fits with the same configuration and the same vocab_size produce
\* the same T projection matrices.
C5_ReproducibleProjections ==
    \A i, j \in 1..Len(fits) :
        Cardinality(DOMAIN fits[i].vocabulary_) = Cardinality(DOMAIN fits[j].vocabulary_)
            => fits[i].components_ = fits[j].components_

\* The column indices are the integers 0..vocab_size-1, one per n-gram.
Dense(vocabulary) ==
    {vocabulary[g] : g \in DOMAIN vocabulary} = 0..(Cardinality(DOMAIN vocabulary) - 1)

\* C6: every fit on the same corpus yields the same n-gram-to-column
\* mapping, and the mapping's indices are dense in [0, vocab_size).
C6_VocabularyDeterministic ==
    /\ \A i \in 1..Len(fits) : Dense(fits[i].vocabulary_)
    /\ \A i, j \in 1..Len(fits) :
         fits[i].X = fits[j].X => fits[i].vocabulary_ = fits[j].vocabulary_

\* C6's case: the same corpus was fitted twice, and the fit pruned features.
C6_Witness ==
    /\ Len(fits) >= 2
    /\ fits[1].X = fits[2].X
    /\ Cardinality(DOMAIN fits[2].vocabulary_) >= 2
    /\ Cardinality(DOMAIN fits[2].vocabulary_)
           < Cardinality(DOMAIN CountVocab(Join(WordTokenizer_transform(fits[2].X))))

\* The number of places where the string g occurs in the string s.
Occurrences(g, s) ==
    Cardinality({p \in 1..(Len(s) - Len(g) + 1) : SubSeq(s, p, p + Len(g) - 1) = g})

\* The n-gram of column j.
FeatureOf(vocabulary, j) == CHOOSE g \in DOMAIN vocabulary : vocabulary[g] = j

\* C10: after a fit, the vectorizer's transform does not fail; entry [i, j]
\* of a sentence's matrix is the number of occurrences of the vocabulary's
\* n-gram j in word i, so an n-gram that is not in the vocabulary counts
\* nowhere; and the matrix is as wide as the vocabulary the fit left.
C10_OutOfVocabulary ==
    (op = "char_term_frequency.transform" /\ Len(fits) > 0) =>
        /\ result.status = "ok"
        /\ Len(result.value) = Len(arg)
        /\ \A s \in 1..Len(arg) :
             /\ result.value[s].shape
                    = <<Len(arg[s]), Cardinality(DOMAIN Last(fits).vocabulary_)>>
             /\ \A i \in 1..Len(arg[s]) :
                  \A j \in 0..(Cardinality(DOMAIN Last(fits).vocabulary_) - 1) :
                      result.value[s].rows[i][j]
                          = Occurrences(FeatureOf(Last(fits).vocabulary_, j), arg[s][i])

\* C10's case: after a fit, a batch was vectorized in which one word shares
\* no n-gram with the vocabulary (an all-zero row) and another word shares
\* some but not all of its n-grams with it.
C10_Witness ==
    /\ op = "char_term_frequency.transform"
    /\ Len(fits) > 0
    /\ result.status = "ok"
    /\ \E s \in 1..Len(arg) : \E i \in 1..Len(arg[s]) :
         \A j \in DOMAIN result.value[s].rows[i] : result.value[s].rows[i][j] = 0
    /\ \E s \in 1..Len(arg) : \E i \in 1..Len(arg[s]) :
         /\ \E j \in DOMAIN result.value[s].rows[i] : result.value[s].rows[i][j] > 0
         /\ \E k \in 1..Len(char_ngrams(arg[s][i])) :
                char_ngrams(arg[s][i])[k] \notin DOMAIN vocabulary_

(***************************************************************************)
(* Further properties of SentenceTokenizer (SpecSplit)                     *)
(***************************************************************************)

\* C13: every sentence _split returns, the chunks cut from an over-long
\* sentence and the remainder left after chunking included, begins and ends
\* with a character that is not whitespace.
C13_TrimmedOutput ==
    Split_done =>
        \A i \in 1..Len(result.value) :
            Len(result.value[i]) > 0 =>
                /\ result.value[i][1] \notin Whitespace
                /\ result.value[i][Len(result.value[i])] \notin Whitespace

(***************************************************************************)
(* Further properties of the pipeline (Spec)                               *)
(***************************************************************************)

\* The batch SentenceTokenizer returns for the empty text: no sentence.
EmptyBatch == SentenceTokenizer_transform(<<>>)

\* C11: empty input is never an error: SentenceTokenizer turns the empty
\* text into the empty batch, and a pipeline operation (fit, fit_transform,
\* transform) on the empty batch does not fail; fit_transform and transform
\* return the empty sequence of matrices.
C11_EmptyInputNeverFails ==
    /\ EmptyBatch = <<>>
    /\ (op \in {"pipeline.fit", "pipeline.fit_transform", "pipeline.transform"}
           /\ arg = EmptyBatch) =>
           /\ result.status = "ok"
           /\ op # "pipeline.fit" => result.value = <<>>

(***************************************************************************)
(* SpecSim: the similarity scenario, fit on a corpus that contains the     *)
(* words "started", "starting" and "star", then transforms of one-word     *)
(* sentences                                                               *)
(***************************************************************************)

Started == <<"s", "t", "a", "r", "t", "e", "d">>
Starting == <<"s", "t", "a", "r", "t", "i", "n", "g">>
Star == <<"s", "t", "a", "r">>
Start == <<"s", "t", "a", "r", "t">>

\* The sentence "started starting star".
S_three == Started \o <<" ">> \o Starting \o <<" ">> \o Star

\* A sentence of ten words "started".
S_ten == Repeat(Started \o <<" ">>, 10)

\* The most ten-word sentences a corpus holds besides S_three: with ten of
\* them the corpus has 103 words, 101 of them "started".
MaxTens == 10

\* A corpus that contains the three words and k sentences S_ten.
SimCorpus(k) == <<S_three>> \o [i \in 1..k |-> S_ten]

SimCorpora == {SimCorpus(k) : k \in {0, 1, MaxTens}}

\* The batches transformed: two one-word sentences.
SimBatches == {<<v, w>> : v, w \in {Start, Started, Starting, Star}}

\* The scenario fits once, on a fresh pipeline.
SimFit ==
    /\ fits = <<>>
    /\ \E X \in SimCorpora :
         \E r \in {Pipeline_fit(Self, X)} :
             /\ Store("pipeline.fit", X, r)
             /\ LogFit(X, r)

SimFitTransform ==
    /\ fits = <<>>
    /\ \E X \in SimCorpora :
         \E r \in {Pipeline_fit_transform(Self, X)} :
             /\ Store("pipeline.fit_transform", X, r)
             /\ LogFit(X, r)

SimTransform ==
    /\ fits # <<>>
    /\ \E X \in SimBatches :
         \E r \in {Pipeline_transform(Self, X)} :
             /\ Store("pipeline.transform", X, r)
             /\ memo' \in Observe
             /\ UNCHANGED fits

NextSim ==
    \/ SimFit
    \/ SimFitTransform
    \/ SimTransform

SpecSim == Init /\ [][NextSim]_vars

(***************************************************************************)
(* Properties of the similarity scenario (SpecSim)                         *)
(***************************************************************************)

\* The words a corpus or a batch holds.
WordsOf(X) ==
    LET words == Join([i \in 1..Len(X) |-> SentenceWords(X[i])])
    IN  {words[k] : k \in 1..Len(words)}

\* A projected matrix is kept as its factors, the count rows X and the
\* matrices drawn; row i of the product is the zero row, whatever was
\* drawn, when count row i is.
ZeroRow(M, i) == \A j \in DOMAIN M.X[i] : M.X[i][j] = 0

\* C12: after a fit on a corpus that contains the words "started",
\* "starting" and "star", the transform of the one-word sentences "start"
\* and "started" succeeds and returns two (1, T*d) matrices whose cosine
\* similarity is above 0.5.  The cosine of two rows is 0 when one of them is
\* the zero row; of the inequality, the formula states what no draw of the
\* matrices can make true otherwise: neither projected row is the zero row.
C12_SimilarityScenario ==
    (/\ op = "pipeline.transform"
     /\ arg = <<Start, Started>>
     /\ fits # <<>>
     /\ {Started, Starting, Star} \subseteq WordsOf(Last(fits).X)) =>
        /\ result.status = "ok"
        /\ Len(result.value) = 2
        /\ \A i \in 1..2 :
             /\ result.value[i].shape = <<1, T * d>>
             /\ ~ZeroRow(result.value[i], 1)

====
